---------------------------- MODULE Spec2Model ----------------------------
(***************************************************************************)
(* Model of evaluation-framework.py: BasicPythonAnalyzer,                  *)
(* RuleBasedPromptGenerator, CompetenceEvaluator and the driver            *)
(* demonstrate_evaluation.                                                 *)
(*                                                                         *)
(* Representation.  A source text is the sequence of its lines (what       *)
(* code.split('\n') returns, so it always has at least one line) and a     *)
(* line is the sequence of its characters.  A message string (an entry of  *)
(* syntax_errors or misconceptions) is the sequence of its words and       *)
(* punctuation marks; the phrases the prompt rules search for start and    *)
(* end at word boundaries.  A score is an integer number of tenths         *)
(* (complexity 3 is 0.3, confidence 8 is 0.8).  A quotient is the pair     *)
(* <<numerator, denominator>>.                                             *)
(***************************************************************************)
EXTENDS Integers, Sequences, FiniteSets

VARIABLES entry, pc, code, analysis, prompts, report, raised, i, out

vars == <<entry, pc, code, analysis, prompts, report, raised, i, out>>

(***************************************************************************)
(* Bounds of the model.                                                    *)
(***************************************************************************)
\* longest source text, in lines, drawn from InputLines
MaxLines == 3
\* most copies of one single-line statement in a repeated source text
MaxRepeat == 6
\* most entries of syntax_errors / misconceptions handed to generate_prompts
MaxEntries == 2

(***************************************************************************)
(* Strings.                                                                *)
(***************************************************************************)
\* the element of a one-element set; {e(x) : x \in {v}} names the value v
\* once, as a local variable does
The(S) == CHOOSE x \in S : TRUE

\* Python's `p in s` for a non-empty p
IsSub(p, s) ==
  \E k \in 0..(Len(s) - Len(p)) : \A j \in 1..Len(p) : s[k + j] = p[j]

\* the number of spaces a line starts with
LeadingSpaces(line) ==
  CHOOSE n \in 0..Len(line) :
    /\ \A j \in 1..n : line[j] = " "
    /\ n = Len(line) \/ line[n + 1] # " "

\* the number of spaces a line ends with
TrailingSpaces(line) ==
  CHOOSE n \in 0..Len(line) :
    /\ \A j \in 1..n : line[Len(line) + 1 - j] = " "
    /\ n = Len(line) \/ line[Len(line) - n] # " "

Lstrip(line) == SubSeq(line, LeadingSpaces(line) + 1, Len(line))

Rstrip(line) == SubSeq(line, 1, Len(line) - TrailingSpaces(line))

IsBlank(line) == Lstrip(line) = << >>

RECURSIVE DropBlankHead(_)
DropBlankHead(lines) ==
  IF Len(lines) > 1 /\ IsBlank(Head(lines)) THEN DropBlankHead(Tail(lines)) ELSE lines

RECURSIVE DropBlankTail(_)
DropBlankTail(lines) ==
  IF Len(lines) > 1 /\ IsBlank(lines[Len(lines)])
  THEN DropBlankTail(SubSeq(lines, 1, Len(lines) - 1))
  ELSE lines

\* code.strip(): leading and trailing whitespace, line breaks included, removed
StripCode(lines) ==
  LET a == DropBlankHead(lines)
      b == [a EXCEPT ![1] = Lstrip(a[1])]
      c == DropBlankTail(b)
  IN  [c EXCEPT ![Len(c)] = Rstrip(c[Len(c)])]

Digit(d) == <<"0", "1", "2", "3", "4", "5", "6", "7", "8", "9">>[d + 1]

\* the decimal rendering of a natural number inside an f-string
RECURSIVE Decimal(_)
Decimal(n) ==
  IF n < 10 THEN <<Digit(n)>> ELSE Decimal(n \div 10) \o <<Digit(n % 10)>>

\* str(list) of a list of strings: [ 'entry' , 'entry' ]
RECURSIVE RenderEntries(_, _)
RenderEntries(entries, k) ==
  IF k > Len(entries) THEN << >>
  ELSE <<"'">> \o entries[k] \o <<"'">>
       \o (IF k < Len(entries) THEN <<",">> ELSE << >>)
       \o RenderEntries(entries, k + 1)

Render(entries) == <<"[">> \o RenderEntries(entries, 1) \o <<"]">>

(***************************************************************************)
(* ast.parse, restricted to the statements of Grammar.  A statement is one *)
(* line: a block header (def, if, for, while, else) followed by an         *)
(* indented block, the same header with its body on the same line          *)
(* (inline), or a simple statement.                                        *)
(***************************************************************************)
Stmt(t, n, nm, inl) == [text |-> t, node |-> n, name |-> nm, inline |-> inl]

Grammar ==
  { Stmt(<<"d","e","f"," ","c","h","e","c","k","_","n","u","m","b","e","r","(","x",")",":">>, "FunctionDef", "check_number", "none"),
    Stmt(<<"d","e","f"," ","c","a","l","c","u","l","a","t","e","_","s","u","m","(","n","u","m","b","e","r","s",")",":">>, "FunctionDef", "calculate_sum", "none"),
    Stmt(<<"d","e","f"," ","f","i","b","o","n","a","c","c","i","(","n",")",":">>, "FunctionDef", "fibonacci", "none"),
    Stmt(<<"d","e","f"," ","f","(","n",")",":">>, "FunctionDef", "f", "none"),
    Stmt(<<"d","e","f"," ","_","_","i","n","i","t","_","_","(","s",")",":">>, "FunctionDef", "__init__", "none"),
    Stmt(<<"d","e","f"," ","g","(","n",")",":"," ","r","e","t","u","r","n"," ","n">>, "FunctionDef", "g", "Return"),
    Stmt(<<"d","e","f"," ","h","(","n",")",":"," ","t"," ","="," ","n"," ","i","f"," ","n"," ","e","l","s","e"," ","0">>, "FunctionDef", "h", "Assign"),
    Stmt(<<"i","f"," ","n"," ","<","="," ","1",":">>, "If", "", "none"),
    Stmt(<<"i","f"," ","n"," ","=","="," ","1",":">>, "If", "", "none"),
    Stmt(<<"i","f"," ","n"," ","!","="," ","1",":">>, "If", "", "none"),
    Stmt(<<"i","f"," ","a"," ","<","="," ","b"," ","a","n","d"," ","c"," ",">","="," ","d",":"," ","t"," ","="," ","0">>, "If", "", "Assign"),
    Stmt(<<"f","o","r"," ","n","u","m"," ","i","n"," ","n","u","m","b","e","r","s",":">>, "For", "", "none"),
    Stmt(<<"w","h","i","l","e"," ","n"," ","!","="," ","1",":"," ","n"," ","-","="," ","1">>, "While", "", "AugAssign"),
    Stmt(<<"e","l","s","e",":">>, "Else", "", "none"),
    Stmt(<<"r","e","t","u","r","n"," ","\"","e","q","u","a","l","\"">>, "Return", "", "none"),
    Stmt(<<"r","e","t","u","r","n"," ","\"","n","o","t"," ","e","q","u","a","l","\"">>, "Return", "", "none"),
    Stmt(<<"r","e","t","u","r","n"," ","n">>, "Return", "", "none"),
    Stmt(<<"r","e","t","u","r","n"," ","f","i","b","o","n","a","c","c","i","(","n","-","1",")"," ","+"," ","f","i","b","o","n","a","c","c","i","(","n","-","2",")">>, "Return", "", "none"),
    Stmt(<<"t","o","t","a","l"," ","="," ","0">>, "Assign", "", "none"),
    Stmt(<<"t","o","t","a","l"," ","+","="," ","n","u","m">>, "AugAssign", "", "none"),
    Stmt(<<"y"," ","="," ","a"," ","i","f"," ","b"," ","e","l","s","e"," ","c">>, "Assign", "", "none") }

Headers == {"FunctionDef", "If", "For", "While", "Else"}

GrammarTexts == {g.text : g \in Grammar}

WellFormed(line) == Lstrip(line) \in GrammarTexts

\* the statements of a text: its non-blank lines, each with its indentation
Statement(line) ==
  The({ [node |-> g.node, name |-> g.name, inline |-> g.inline,
         indent |-> LeadingSpaces(line)] :
        g \in {h \in Grammar : h.text \in {Lstrip(line)}} })

Statements(lines) ==
  The({ [k \in 1..Len(keep) |-> Statement(lines[keep[k]])] :
        keep \in {SelectSeq([n \in 1..Len(lines) |-> n],
                            LAMBDA n : ~IsBlank(lines[n]))} })

Opens(s) == s.node \in Headers /\ s.inline = "none"

\* the tokenizer's INDENT / DEDENT discipline: the text starts unindented,
\* a block header is followed by a deeper line, any other line by a line
\* that is no deeper and that stands at the depth of a block still open,
\* and the text does not end on a block header
Indented(ss) ==
  \/ Len(ss) = 0
  \/ /\ ss[1].indent = 0
     /\ ~Opens(ss[Len(ss)])
     /\ \A k \in 2..Len(ss) :
          IF Opens(ss[k - 1])
          THEN ss[k].indent > ss[k - 1].indent
          ELSE /\ ss[k].indent <= ss[k - 1].indent
               /\ \E j \in 1..(k - 1) :
                    /\ ss[j].indent = ss[k].indent
                    /\ \A m \in (j + 1)..(k - 1) : ss[m].indent > ss[k].indent

\* an else clause continues the if, for or while statement just before it
ElseAttached(ss) ==
  \A k \in 1..Len(ss) :
    ss[k].node = "Else" =>
      \E j \in 1..(k - 1) :
        /\ ss[j].indent = ss[k].indent
        /\ ss[j].node \in {"If", "For", "While"}
        /\ \A m \in (j + 1)..(k - 1) : ss[m].indent > ss[k].indent

Parses(lines) ==
  /\ \A n \in 1..Len(lines) : IsBlank(lines[n]) \/ WellFormed(lines[n])
  /\ \E ss \in {Statements(lines)} : Indented(ss) /\ ElseAttached(ss)

\* ast.parse(code): the statement list, or SyntaxError with its message
Parse(lines) ==
  IF Parses(lines)
  THEN [ok |-> TRUE, tree |-> Statements(lines), msg |-> << >>]
  ELSE [ok |-> FALSE, tree |-> << >>, msg |-> <<"invalid", "syntax">>]

NodesOf(s) == IF s.inline = "none" THEN <<s.node>> ELSE <<s.node, s.inline>>

RECURSIVE WalkRange(_, _, _)
WalkRange(tree, j, last) ==
  IF j > last THEN << >> ELSE NodesOf(tree[j]) \o WalkRange(tree, j + 1, last)

\* ast.walk(tree): the statement nodes, inline bodies included
Walk(tree) == WalkRange(tree, 1, Len(tree))

\* ast.walk(tree[j]): the statement and everything nested in it
WalkFrom(tree, j) ==
  LET last == CHOOSE e \in j..Len(tree) :
                /\ \A m \in (j + 1)..e : tree[m].indent > tree[j].indent
                /\ e = Len(tree) \/ tree[e + 1].indent <= tree[j].indent
  IN  WalkRange(tree, j, last)

(***************************************************************************)
(* BasicPythonAnalyzer.                                                    *)
(***************************************************************************)
\* the loop over ast.walk(tree) from node k on
RECURSIVE CountComplexity(_, _)
CountComplexity(nodes, k) ==
  IF k > Len(nodes) THEN 0
  ELSE (IF nodes[k] \in {"For", "While", "If"} THEN 1
        ELSE IF nodes[k] = "FunctionDef" THEN 2
        ELSE 0) + CountComplexity(nodes, k + 1)

\* variant: the score is not clamped
calculate_complexity_unclamped(tree) == CountComplexity(Walk(tree), 1)

\* min(complexity / 10.0, 1.0), in tenths
calculate_complexity(tree) ==
  The({ IF complexity < 10 THEN complexity ELSE 10 :
        complexity \in {CountComplexity(Walk(tree), 1)} })

\* variant: the lines are counted from 0
AssignmentIssue_from_zero(n) ==
  <<"Line">> \o Decimal(n - 1) \o <<":", "Possible", "assignment", "in", "condition">>

AssignmentIssue(n) ==
  <<"Line">> \o Decimal(n) \o <<":", "Possible", "assignment", "in", "condition">>

Suspicious(line) ==
  /\ IsSub(<<"=">>, line)
  /\ ~IsSub(<<"=","=">>, line)
  /\ ~IsSub(<<"!","=">>, line)
  /\ IsSub(<<"i","f"," ">>, line)

RECURSIVE IssuesFrom(_, _)
IssuesFrom(lines, n) ==
  IF n > Len(lines) THEN << >>
  ELSE (IF Suspicious(lines[n]) THEN <<AssignmentIssue(n)>> ELSE << >>)
       \o IssuesFrom(lines, n + 1)

check_syntax_issues(lines) == IssuesFrom(lines, 1)

MissingReturn == <<"Function", "may", "be", "missing", "return", "statement">>

has_return(tree, j) ==
  \E nodes \in {WalkFrom(tree, j)} : \E k \in 1..Len(nodes) : nodes[k] = "Return"

\* one entry per offending function; the entries are identical, so the order
\* in which ast.walk visits the functions does not show
RECURSIVE MisconceptionsFrom(_, _)
MisconceptionsFrom(tree, j) ==
  IF j > Len(tree) THEN << >>
  ELSE (IF /\ tree[j].node = "FunctionDef"
           /\ ~has_return(tree, j)
           /\ tree[j].name # "__init__"
        THEN <<MissingReturn>> ELSE << >>)
       \o MisconceptionsFrom(tree, j + 1)

detect_common_misconceptions(tree) == MisconceptionsFrom(tree, 1)

NoAnalysis ==
  [syntax_errors |-> << >>, logical_issues |-> << >>, misconceptions |-> << >>,
   complexity_score |-> 0, confidence |-> 0]

\* variant: complexity starts at 0.0, so a parse failure is returned
AnalyzeLocals_complexity_preset(lines) ==
  The({ IF p.ok
        THEN [syntax_errors |-> check_syntax_issues(lines),
              logical_issues |-> << >>,
              misconceptions |-> detect_common_misconceptions(p.tree),
              complexity |-> <<calculate_complexity(p.tree)>>]
        ELSE [syntax_errors |-> << <<"Syntax", "error", ":">> \o p.msg >>,
              logical_issues |-> << >>,
              misconceptions |-> << >>,
              complexity |-> <<0>>] :
        p \in {Parse(lines)} })

\* the local variables of analyze when it reaches its return statement;
\* complexity is << >> while no assignment has bound it
AnalyzeLocals(lines) ==
  The({ IF p.ok
        THEN [syntax_errors |-> check_syntax_issues(lines),
              logical_issues |-> << >>,
              misconceptions |-> detect_common_misconceptions(p.tree),
              complexity |-> <<calculate_complexity(p.tree)>>]
        ELSE [syntax_errors |-> << <<"Syntax", "error", ":">> \o p.msg >>,
              logical_issues |-> << >>,
              misconceptions |-> << >>,
              complexity |-> << >>] :
        p \in {Parse(lines)} })

\* analyze(code): the result it returns, or the error it raises
analyze(lines) ==
  The({ IF l.complexity = << >>
        THEN [raised |-> "UnboundLocalError", value |-> NoAnalysis]
        ELSE [raised |-> "none",
              value |-> [syntax_errors |-> l.syntax_errors,
                         logical_issues |-> l.logical_issues,
                         misconceptions |-> l.misconceptions,
                         complexity_score |-> l.complexity[1],
                         confidence |-> 8]] :
        l \in {AnalyzeLocals(lines)} })

(***************************************************************************)
(* RuleBasedPromptGenerator.                                               *)
(***************************************************************************)
DebuggingPrompt ==
  [text |-> "Look at your code structure. Can you identify any syntax issues? What might Python be expecting differently?",
   category |-> "debugging",
   difficulty_level |-> 2,
   learning_objective |-> "Syntax error identification and resolution"]

AssignmentPrompt ==
  [text |-> "In your conditional statement, consider the difference between assignment (=) and comparison (==). Which operation do you intend to perform?",
   category |-> "conceptual",
   difficulty_level |-> 3,
   learning_objective |-> "Understanding assignment vs equality operators"]

ReturnPrompt ==
  [text |-> "Think about what your function should give back to the caller. What value or result should it return?",
   category |-> "conceptual",
   difficulty_level |-> 3,
   learning_objective |-> "Function return values and program flow"]

ExtensionPrompt ==
  [text |-> "Your solution shows good complexity. Can you explain the logic flow? How would you trace through it step by step?",
   category |-> "extension",
   difficulty_level |-> 4,
   learning_objective |-> "Algorithm analysis and explanation"]

Rule1(a) == a.syntax_errors # << >>

Rule2(a) == IsSub(<<"assignment", "in", "condition">>, Render(a.syntax_errors))

\* variant: a membership test in place of the search in the rendering
Rule3_membership(a) ==
  \E k \in 1..Len(a.misconceptions) :
    a.misconceptions[k] = <<"missing", "return", "statement">>

Rule3(a) == IsSub(<<"missing", "return", "statement">>, Render(a.misconceptions))

Rule4(a) == a.complexity_score > 5

\* variant: rule 2 is an elif of rule 1
generate_prompts_elif(a) ==
  (IF Rule1(a) THEN <<DebuggingPrompt>>
   ELSE IF Rule2(a) THEN <<AssignmentPrompt>> ELSE << >>)
  \o (IF Rule3(a) THEN <<ReturnPrompt>> ELSE << >>)
  \o (IF Rule4(a) THEN <<ExtensionPrompt>> ELSE << >>)

generate_prompts(a) ==
  (IF Rule1(a) THEN <<DebuggingPrompt>> ELSE << >>)
  \o (IF Rule2(a) THEN <<AssignmentPrompt>> ELSE << >>)
  \o (IF Rule3(a) THEN <<ReturnPrompt>> ELSE << >>)
  \o (IF Rule4(a) THEN <<ExtensionPrompt>> ELSE << >>)

(***************************************************************************)
(* CompetenceEvaluator.                                                    *)
(***************************************************************************)
RECURSIVE SumDifficulty(_, _)
SumDifficulty(ps, k) ==
  IF k > Len(ps) THEN 0 ELSE ps[k].difficulty_level + SumDifficulty(ps, k + 1)

\* variant: the mean is taken without the test for an empty list
avg_difficulty_unguarded(ps) == <<SumDifficulty(ps, 1), Len(ps)>>

\* sum(...) / len(prompts) if prompts else 0; a quotient whose denominator
\* is 0 stands for a division by zero
avg_difficulty(ps) ==
  IF ps # << >> THEN <<SumDifficulty(ps, 1), Len(ps)>> ELSE <<0, 1>>

NoReport ==
  [code |-> << >>, analysis |-> NoAnalysis, generated_prompts |-> << >>,
   summary |-> [total_prompts |-> 0, categories |-> {}, avg_difficulty |-> <<0, 1>>]]

\* the dictionary a GeneratedPrompt is flattened to
PromptDict(p) ==
  [text |-> p.text, category |-> p.category,
   difficulty |-> p.difficulty_level, objective |-> p.learning_objective]

EvaluationReport(lines, a, ps) ==
  [code |-> lines,
   analysis |-> [syntax_errors |-> a.syntax_errors,
                 logical_issues |-> a.logical_issues,
                 misconceptions |-> a.misconceptions,
                 complexity_score |-> a.complexity_score,
                 confidence |-> a.confidence],
   generated_prompts |->
     [k \in 1..Len(ps) |-> PromptDict(ps[k])],
   summary |-> [total_prompts |-> Len(ps),
                categories |-> {ps[k].category : k \in 1..Len(ps)},
                avg_difficulty |-> avg_difficulty(ps)]]

(***************************************************************************)
(* demonstrate_evaluation: the samples, as written (each literal opens     *)
(* with a line break and closes on an indented line).                      *)
(***************************************************************************)
sample_codes ==
  << << << >>,
        <<"d","e","f"," ","c","h","e","c","k","_","n","u","m","b","e","r","(","x",")",":">>,
        <<" "," "," "," ","i","f"," ","x"," ","="," ","5",":">>,
        <<" "," "," "," "," "," "," "," ","r","e","t","u","r","n"," ","\"","e","q","u","a","l","\"">>,
        <<" "," "," "," ","e","l","s","e",":">>,
        <<" "," "," "," "," "," "," "," ","r","e","t","u","r","n"," ","\"","n","o","t"," ","e","q","u","a","l","\"">>,
        <<" "," "," "," "," "," "," "," ">> >>,
     << << >>,
        <<"d","e","f"," ","c","a","l","c","u","l","a","t","e","_","s","u","m","(","n","u","m","b","e","r","s",")",":">>,
        <<" "," "," "," ","t","o","t","a","l"," ","="," ","0">>,
        <<" "," "," "," ","f","o","r"," ","n","u","m"," ","i","n"," ","n","u","m","b","e","r","s",":">>,
        <<" "," "," "," "," "," "," "," ","t","o","t","a","l"," ","+","="," ","n","u","m">>,
        <<" "," "," "," "," "," "," "," ">> >>,
     << << >>,
        <<"d","e","f"," ","f","i","b","o","n","a","c","c","i","(","n",")",":">>,
        <<" "," "," "," ","i","f"," ","n"," ","<","="," ","1",":">>,
        <<" "," "," "," "," "," "," "," ","r","e","t","u","r","n"," ","n">>,
        <<" "," "," "," ","e","l","s","e",":">>,
        <<" "," "," "," "," "," "," "," ","r","e","t","u","r","n"," ","f","i","b","o","n","a","c","c","i","(","n","-","1",")"," ","+"," ","f","i","b","o","n","a","c","c","i","(","n","-","2",")">>,
        <<" "," "," "," "," "," "," "," ">> >> >>

(***************************************************************************)
(* Inputs of the public entry points.                                      *)
(***************************************************************************)
InputLines ==
  { << >>,
    <<"d","e","f"," ","f","(","n",")",":">>,
    <<"d","e","f"," ","_","_","i","n","i","t","_","_","(","s",")",":">>,
    <<"d","e","f"," ","g","(","n",")",":"," ","r","e","t","u","r","n"," ","n">>,
    <<"d","e","f"," ","h","(","n",")",":"," ","t"," ","="," ","n"," ","i","f"," ","n"," ","e","l","s","e"," ","0">>,
    <<" "," "," "," ","i","f"," ","n"," ","<","="," ","1",":">>,
    <<" "," "," "," ","i","f"," ","n"," ","="," ","1",":">>,
    <<" "," "," "," ","i","f"," ","n"," ","=","="," ","1",":">>,
    <<" "," "," "," ","i","f"," ","n"," ","!","="," ","1",":">>,
    <<" "," "," "," ","e","l","s","e",":">>,
    <<" "," "," "," ","r","e","t","u","r","n"," ","n">>,
    <<" "," "," "," "," "," "," "," ","r","e","t","u","r","n"," ","n">>,
    <<"y"," ","="," ","a"," ","i","f"," ","b"," ","e","l","s","e"," ","c">>,
    <<"i","f"," ","a"," ","<","="," ","b"," ","a","n","d"," ","c"," ",">","="," ","d",":"," ","t"," ","="," ","0">>,
    <<"w","h","i","l","e"," ","n"," ","!","="," ","1",":"," ","n"," ","-","="," ","1">> }

ShortCodes == UNION {[1..n -> InputLines] : n \in 1..MaxLines}

RepeatedLines == {<<"d","e","f"," ","g","(","n",")",":"," ","r","e","t","u","r","n"," ","n">>, <<"d","e","f"," ","h","(","n",")",":"," ","t"," ","="," ","n"," ","i","f"," ","n"," ","e","l","s","e"," ","0">>}

RepeatedCodes == {[k \in 1..n |-> l] : n \in 1..MaxRepeat, l \in RepeatedLines}

SampleInputs == {StripCode(sample_codes[k]) : k \in 1..Len(sample_codes)}

Inputs == ShortCodes \cup RepeatedCodes \cup SampleInputs

SyntaxEntries ==
  { <<"Syntax", "error", ":", "invalid", "syntax">>,
    AssignmentIssue(2),
    <<"Possible", "assignment", "in">>,
    <<"condition">> }

MisconceptionEntries ==
  { MissingReturn,
    <<"missing", "return">>,
    <<"statement">> }

\* complexity scores on both sides of the rule-4 threshold
Scores == {0, 3, 5, 6, 10}

EntryLists(pool) == UNION {[1..n -> pool] : n \in 0..MaxEntries}

AnalysisResults ==
  { [syntax_errors |-> se, logical_issues |-> << >>, misconceptions |-> mc,
     complexity_score |-> cs, confidence |-> 8] :
    se \in EntryLists(SyntaxEntries),
    mc \in EntryLists(MisconceptionEntries),
    cs \in Scores }

(***************************************************************************)
(* The state machine.  Init is the loaded module with an evaluator built   *)
(* from BasicPythonAnalyzer and RuleBasedPromptGenerator; entry is the     *)
(* public entry point that is then called: evaluate_student_code(code),    *)
(* generate_prompts(code, analysis) or demonstrate_evaluation().           *)
(***************************************************************************)
Init ==
  /\ entry = "none"
  /\ pc = "idle"
  /\ code = << << >> >>
  /\ analysis = NoAnalysis
  /\ prompts = << >>
  /\ report = NoReport
  /\ raised = "none"
  /\ i = 0
  /\ out = << >>

\* a caller invokes evaluator.evaluate_student_code(code)
CallEvaluate ==
  /\ pc = "idle"
  /\ entry' = "evaluate"
  /\ code' \in Inputs
  /\ pc' = "analyze"
  /\ UNCHANGED <<analysis, prompts, report, raised, i, out>>

\* a caller invokes prompt_gen.generate_prompts(code, analysis); the code
\* argument is never read
CallGenerate ==
  /\ pc = "idle"
  /\ entry' = "generate"
  /\ analysis' \in AnalysisResults
  /\ pc' = "generate"
  /\ UNCHANGED <<code, prompts, report, raised, i, out>>

\* the script is run: demonstrate_evaluation() shows its banner
CallDemo ==
  /\ pc = "idle"
  /\ entry' = "demo"
  /\ out' = << <<"banner", 0>> >>
  /\ pc' = "loop"
  /\ UNCHANGED <<code, analysis, prompts, report, raised, i>>

\* self.analyzer.analyze(code) returns
AnalyzeReturn ==
  /\ pc = "analyze"
  /\ analyze(code).raised = "none"
  /\ analysis' = analyze(code).value
  /\ pc' = "generate"
  /\ UNCHANGED <<entry, code, prompts, report, raised, i, out>>

\* self.analyzer.analyze(code) raises: evaluate_student_code has no handler
\* and the error reaches its caller
AnalyzeRaise ==
  /\ pc = "analyze"
  /\ analyze(code).raised # "none"
  /\ raised' = analyze(code).raised
  /\ pc' = IF entry = "demo" THEN "except" ELSE "propagated"
  /\ UNCHANGED <<entry, code, analysis, prompts, report, i, out>>

\* self.prompt_generator.generate_prompts(code, analysis)
GeneratePrompts ==
  /\ pc = "generate"
  /\ prompts' = generate_prompts(analysis)
  /\ pc' = IF entry = "generate" THEN "returned" ELSE "assemble"
  /\ UNCHANGED <<entry, code, analysis, report, raised, i, out>>

\* the report dictionary is built and returned
AssembleReport ==
  /\ pc = "assemble"
  /\ report' = EvaluationReport(code, analysis, prompts)
  /\ pc' = IF entry = "demo" THEN "show" ELSE "returned"
  /\ UNCHANGED <<entry, code, analysis, prompts, raised, i, out>>

\* for i, code in enumerate(sample_codes, 1): the header is shown and
\* evaluate_student_code(code.strip()) is called
DemoNext ==
  /\ entry = "demo"
  /\ pc = "loop"
  /\ i < Len(sample_codes)
  /\ i' = i + 1
  /\ code' = StripCode(sample_codes[i + 1])
  /\ out' = Append(out, <<"example", i + 1>>)
  /\ analysis' = NoAnalysis
  /\ prompts' = << >>
  /\ report' = NoReport
  /\ pc' = "analyze"
  /\ UNCHANGED <<entry, raised>>

\* the try block's output: the counts, the score and the prompts
DemoShow ==
  /\ entry = "demo"
  /\ pc = "show"
  /\ out' = Append(out, <<"results", i>>)
  /\ pc' = "loop"
  /\ UNCHANGED <<entry, code, analysis, prompts, report, raised, i>>

\* variant: no handler, the error leaves the loop
DemoExcept_unhandled ==
  /\ entry = "demo"
  /\ pc = "except"
  /\ pc' = "propagated"
  /\ UNCHANGED <<entry, code, analysis, prompts, report, raised, i, out>>

\* except Exception as e: the error is shown and the loop goes on
DemoExcept ==
  /\ entry = "demo"
  /\ pc = "except"
  /\ out' = Append(out, <<"error", i>>)
  /\ raised' = "none"
  /\ pc' = "loop"
  /\ UNCHANGED <<entry, code, analysis, prompts, report, i>>

\* the loop is exhausted: the closing summary
DemoClose ==
  /\ entry = "demo"
  /\ pc = "loop"
  /\ i = Len(sample_codes)
  /\ out' = Append(out, <<"closing", 0>>)
  /\ pc' = "done"
  /\ UNCHANGED <<entry, code, analysis, prompts, report, raised, i>>

\* a step of a call that is under way
Run ==
  \/ AnalyzeReturn
  \/ AnalyzeRaise
  \/ GeneratePrompts
  \/ AssembleReport
  \/ DemoNext
  \/ DemoShow
  \/ DemoExcept
  \/ DemoClose

Next ==
  \/ CallEvaluate
  \/ CallGenerate
  \/ CallDemo
  \/ Run

Spec == Init /\ [][Next]_vars

\* a step of the running script
DemoRun == entry = "demo" /\ Run

\* the program is single-threaded and synchronous: once the script has
\* started nothing suspends it, so it keeps taking its next step
FairSpec == Spec /\ WF_vars(DemoRun)

(***************************************************************************)
(* Positions.                                                              *)
(***************************************************************************)
\* analyze was called on code and has returned or raised
AfterAnalyze ==
  /\ entry # "generate"
  /\ pc \in {"generate", "assemble", "returned", "propagated", "show", "except"}

\* analysis holds what analyze(code) returned
AnalysisReturned ==
  /\ entry # "generate"
  /\ pc \in {"generate", "assemble", "returned", "show"}

\* evaluate_student_code(code) is over: report holds what it returned, or
\* the error it let through is with its caller
EvaluateOver ==
  /\ entry # "generate"
  /\ pc \in {"returned", "propagated", "show", "except"}

ReportReturned ==
  /\ entry # "generate"
  /\ pc \in {"returned", "show"}

\* generate_prompts has returned prompts for analysis
PromptsReturned ==
  \/ entry = "generate" /\ pc = "returned"
  \/ entry # "generate" /\ pc \in {"assemble", "returned", "show"}

(***************************************************************************)
(* C1.  For every input that fails to parse, analyze returns normally a    *)
(* result whose syntax_errors has exactly one entry, starting with         *)
(* "Syntax error:", whose misconceptions is empty, whose complexity_score  *)
(* is 0.0 and whose confidence is 0.8.                                     *)
(***************************************************************************)
C1_ParseFailureIsReturned ==
  (AfterAnalyze /\ ~Parses(code)) =>
    /\ raised = "none"
    /\ pc \notin {"propagated", "except"}
    /\ Len(analysis.syntax_errors) = 1
    /\ SubSeq(analysis.syntax_errors[1], 1, 3) = <<"Syntax", "error", ":">>
    /\ analysis.misconceptions = << >>
    /\ analysis.complexity_score = 0
    /\ analysis.confidence = 8

(***************************************************************************)
(* C2.  For every input that fails to parse, evaluate_student_code returns *)
(* a report whose generated_prompts is exactly the rule-1 debugging prompt *)
(* (difficulty 2), and no error reaches the caller.                        *)
(***************************************************************************)
C2_ParseFailureYieldsDebuggingPrompt ==
  (EvaluateOver /\ ~Parses(code)) =>
    /\ raised = "none"
    /\ pc \in {"returned", "show"}
    /\ report.generated_prompts = <<PromptDict(DebuggingPrompt)>>
    /\ report.generated_prompts[1].difficulty = 2

(***************************************************************************)
(* C3.  Evaluating the Fibonacci sample yields complexity_score 0.3 and an *)
(* empty generated_prompts list.                                           *)
(***************************************************************************)
C3_FibonacciHasNoPrompts ==
  (ReportReturned /\ code = StripCode(sample_codes[3])) =>
    /\ report.analysis.complexity_score = 3
    /\ report.generated_prompts = << >>

(***************************************************************************)
(* C4.  The list generate_prompts returns is exactly the subsequence of    *)
(* the rule table (debugging, assignment-vs-equality, return-value,        *)
(* extension) made of the rules whose condition holds, one prompt per      *)
(* firing rule, in table order.                                            *)
(***************************************************************************)
RuleTable == <<DebuggingPrompt, AssignmentPrompt, ReturnPrompt, ExtensionPrompt>>

Fires(a) ==
  {r \in 1..4 :
     \/ r = 1 /\ Len(a.syntax_errors) > 0
     \/ r = 2 /\ IsSub(<<"assignment", "in", "condition">>, Render(a.syntax_errors))
     \/ r = 3 /\ IsSub(<<"missing", "return", "statement">>, Render(a.misconceptions))
     \/ r = 4 /\ a.complexity_score > 5}

C4_PromptsFollowRuleTable ==
  PromptsReturned =>
    /\ Len(prompts) = Cardinality(Fires(analysis))
    /\ \A r \in Fires(analysis) :
         prompts[1 + Cardinality({q \in Fires(analysis) : q < r})] = RuleTable[r]

C4_Witness ==
  /\ entry = "generate"
  /\ pc = "returned"
  /\ Fires(analysis) = {1, 3, 4}
  /\ Len(prompts) = 3

(***************************************************************************)
(* C5.  For every parseable input, complexity_score is min(c / 10, 1.0)    *)
(* with c = (for, while and if nodes) + 2 * (function definitions): 0.0    *)
(* when c = 0, 1.0 for every c >= 10, never above 1.0, never negative.     *)
(***************************************************************************)
NodeCount(lines, kinds) ==
  LET nodes == Walk(Parse(lines).tree)
  IN  Cardinality({k \in 1..Len(nodes) : nodes[k] \in kinds})

RawCount(lines) ==
  NodeCount(lines, {"For", "While", "If"}) + 2 * NodeCount(lines, {"FunctionDef"})

C5_ComplexityIsClampedCount ==
  (AnalysisReturned /\ Parses(code)) =>
    LET c == RawCount(code)
        s == analysis.complexity_score
    IN  /\ s = IF c <= 10 THEN c ELSE 10
        /\ c = 0 => s = 0
        /\ c >= 10 => s = 10
        /\ s >= 0 /\ s <= 10

C5_Witness ==
  /\ AnalysisReturned
  /\ Parses(code)
  /\ RawCount(code) > 10
  /\ analysis.complexity_score = 10

(***************************************************************************)
(* C6.  In every report, summary.total_prompts is the length of            *)
(* generated_prompts, and summary.avg_difficulty is 0 when there is no     *)
(* prompt (no division by zero) and otherwise the sum of the prompts'      *)
(* difficulties divided by their number.                                   *)
(***************************************************************************)
RECURSIVE SumOf(_)
SumOf(ds) == IF ds = << >> THEN 0 ELSE Head(ds).difficulty + SumOf(Tail(ds))

C6_SummaryMatchesPrompts ==
  ReportReturned =>
    LET gp == report.generated_prompts
        avg == report.summary.avg_difficulty
    IN  /\ report.summary.total_prompts = Len(gp)
        /\ avg[2] # 0
        /\ gp = << >> => avg[1] = 0
        /\ gp # << >> => avg[1] * Len(gp) = SumOf(gp) * avg[2]

C6_Witness ==
  /\ ReportReturned
  /\ report.generated_prompts = << >>
  /\ report.summary.avg_difficulty[1] = 0

(***************************************************************************)
(* C7.  For a parseable input made of one function, not named __init__,    *)
(* with no return statement anywhere, no line holding "if " and a          *)
(* complexity of at most 0.5 (the calculate_sum sample, complexity 0.3),   *)
(* misconceptions is exactly one "Function may be missing return           *)
(* statement" and generated_prompts is exactly the rule-3 return-value     *)
(* prompt (difficulty 3).                                                  *)
(***************************************************************************)
OneFunctionNoReturn(lines) ==
  /\ Parses(lines)
  /\ NodeCount(lines, {"FunctionDef"}) = 1
  /\ NodeCount(lines, {"Return"}) = 0
  /\ LET tree == Parse(lines).tree
     IN  \A k \in 1..Len(tree) :
           tree[k].node = "FunctionDef" => tree[k].name # "__init__"
  /\ \A n \in 1..Len(lines) : ~IsSub(<<"i", "f", " ">>, lines[n])
  /\ RawCount(lines) <= 5

C7_MissingReturnYieldsReturnPrompt ==
  (ReportReturned /\ OneFunctionNoReturn(code)) =>
    /\ report.analysis.misconceptions = <<MissingReturn>>
    /\ report.generated_prompts = <<PromptDict(ReturnPrompt)>>
    /\ report.generated_prompts[1].difficulty = 3
    /\ code = StripCode(sample_codes[2]) => report.analysis.complexity_score = 3

C7_Witness ==
  /\ entry = "demo"
  /\ pc = "show"
  /\ i = 2
  /\ code = StripCode(sample_codes[2])
  /\ OneFunctionNoReturn(code)
  /\ report.generated_prompts = <<PromptDict(ReturnPrompt)>>

(***************************************************************************)
(* C8.  demonstrate_evaluation processes the samples in order and always   *)
(* reaches its end: when evaluating sample i raises, the driver shows an   *)
(* error for sample i and goes on with sample i + 1, every later sample is *)
(* evaluated and the closing summary is shown.                             *)
(***************************************************************************)
DemoOutputComplete ==
  /\ Len(out) = 2 * Len(sample_codes) + 2
  /\ out[1] = <<"banner", 0>>
  /\ out[Len(out)] = <<"closing", 0>>
  /\ \A n \in 1..Len(sample_codes) :
       /\ out[2 * n] = <<"example", n>>
       /\ out[2 * n + 1] \in {<<"results", n>>, <<"error", n>>}

ErrorIsShownAndLoopGoesOn ==
  (entry = "demo" /\ raised # "none") =>
    /\ out' = Append(out, <<"error", i>>)
    /\ pc' = "loop"
    /\ i' = i

C8_DemoAlwaysFinishes ==
  /\ [][ErrorIsShownAndLoopGoesOn]_vars
  /\ [](entry = "demo" /\ pc = "done" => DemoOutputComplete)
  /\ [](entry = "demo" => <>(pc = "done"))

C8_Witness ==
  /\ entry = "demo"
  /\ pc = "done"
  /\ out[3] = <<"error", 1>>
  /\ out[5] = <<"results", 2>>
  /\ out[7] = <<"results", 3>>

(***************************************************************************)
(* C9.  For every parseable input, syntax_errors holds one entry           *)
(* "Line n: Possible assignment in condition" for exactly the lines n      *)
(* (counted from 1, in increasing order) that hold the character `=`, hold *)
(* neither `==` nor `!=` and hold "if "; a line whose only `=` is part of  *)
(* `<=`, `>=` or `+=` falls under the rule like any other.                 *)
(***************************************************************************)
Occurrences(line, c) == Cardinality({k \in 1..Len(line) : line[k] = c})

HasPair(line, a, b) == \E k \in 1..(Len(line) - 1) : line[k] = a /\ line[k + 1] = b

HasIf(line) ==
  \E k \in 1..(Len(line) - 2) : line[k] = "i" /\ line[k + 1] = "f" /\ line[k + 2] = " "

Flagged(lines) ==
  {n \in 1..Len(lines) :
     /\ Occurrences(lines[n], "=") >= 1
     /\ ~HasPair(lines[n], "=", "=")
     /\ ~HasPair(lines[n], "!", "=")
     /\ HasIf(lines[n])}

Emitted(p) ==
  \E k \in 1..Len(report.generated_prompts) : report.generated_prompts[k] = PromptDict(p)

C10_DebuggingIffAssignment ==
  ReportReturned =>
    /\ Emitted(DebuggingPrompt) <=> Emitted(AssignmentPrompt)
    /\ Emitted(DebuggingPrompt) =>
         /\ report.generated_prompts[1] = PromptDict(DebuggingPrompt)
         /\ report.generated_prompts[2] = PromptDict(AssignmentPrompt)
    /\ \A k \in 1..Len(report.analysis.syntax_errors) :
         IsSub(<<"assignment", "in", "condition">>, report.analysis.syntax_errors[k])

C10_Witness ==
  /\ ReportReturned
  /\ Len(report.generated_prompts) >= 2
  /\ report.generated_prompts[1] = PromptDict(DebuggingPrompt)
  /\ report.generated_prompts[2] = PromptDict(AssignmentPrompt)

=============================================================================
